---- MODULE Spec2Model ----
(***************************************************************************)
(* A model of py-bcp-utils: the native BCP type encoders                   *)
(* (bcp_utils/converters/functions.py), the XML format-file generator      *)
(* (bcp_utils/xml_builder.py) and the native bulk insert                   *)
(* (bcp_utils/bulk_insert.py).                                             *)
(*                                                                         *)
(* Bytes are integers 0..255, byte strings are sequences of bytes, text is *)
(* a sequence of Unicode code points.  A cell of a DataFrame is a record   *)
(* whose field k names the Python kind of the value.                       *)
(***************************************************************************)
EXTENDS Integers, Sequences, FiniteSets, TLC

\* Bounds of the explored inputs.
MaxRows == 2
MaxCols == 2

(***************************************************************************)
(* Python values                                                           *)
(***************************************************************************)
\* None / NaN / pd.NA / NaT: everything pd.isna answers True for.
Null == [k |-> "null"]
IntV(n) == [k |-> "int", v |-> n]
\* The float m / 2^s (a dyadic rational, exactly representable).
FloatV(m, s) == [k |-> "float", m |-> m, s |-> s]
StrV(s) == [k |-> "str", s |-> s]
\* The str c * n: the character c, n times.
RepV(c, n) == [k |-> "rep", c |-> c, n |-> n]
BytesV(b) == [k |-> "bytes", b |-> b]
\* A timestamp: calendar day, second of the day, nanosecond of the second.
TsV(y, mo, d, sec, ns) == [k |-> "ts", y |-> y, mo |-> mo, d |-> d, sec |-> sec, ns |-> ns]

isna(val) == val.k = "null"

\* A call either returns a value or raises an exception of a named class.
Return(v) == [exc |-> "none", val |-> v]
Raise(e) == [exc |-> e, val |-> <<>>]
Raised(r) == r.exc # "none"

(***************************************************************************)
(* struct.pack and friends                                                 *)
(***************************************************************************)
Pow2(n) == 2 ^ n
Pow256(n) == 256 ^ n

\* The i-th (from 1) little-endian byte of the two's complement of n.
ByteOf(n, i) ==
    IF n >= 0
    THEN IF i > 4 THEN 0 ELSE (n \div Pow256(i - 1)) % 256
    ELSE IF i > 4 THEN 255 ELSE 255 - ((((-n) - 1) \div Pow256(i - 1)) % 256)

\* struct.pack("<b/h/i/q", n) and ("<B/H/Q", n): w little-endian bytes.
PackLE(n, w) == [i \in 1..w |-> ByteOf(n, i)]

\* struct.pack("<H", n): struct.error outside 0..65535.
Pack_H(n) ==
    IF n < 0 \/ n > 65535 THEN Raise("struct.error") ELSE Return(PackLE(n, 2))

\* floor(log2(a)) for a >= 1.
RECURSIVE FloorLog2(_)
FloorLog2(a) == IF a < 2 THEN 0 ELSE 1 + FloorLog2(a \div 2)

Abs(n) == IF n < 0 THEN -n ELSE n

\* struct.pack("<d", m / 2^s) for 0 <= |m| < 2^20: IEEE 754 binary64,
\* sign(1) exponent(11) fraction(52), little-endian.
Pack_d(m, s) ==
    IF m = 0 THEN <<0, 0, 0, 0, 0, 0, 0, 0>>
    ELSE LET a == Abs(m)
             e == FloorLog2(a)
             ex == e - s + 1023
             hi20 == (a - Pow2(e)) * Pow2(20 - e)   \* top 20 fraction bits
             sg == IF m < 0 THEN 128 ELSE 0
         IN  <<0, 0, 0, 0,
               hi20 % 256,
               (hi20 \div 256) % 256,
               ((ex % 16) * 16) + (hi20 \div 65536),
               sg + (ex \div 16)>>

\* struct.pack("<f", m / 2^s) for 0 <= |m| < 2^20: IEEE 754 binary32,
\* sign(1) exponent(8) fraction(23), little-endian.
Pack_f(m, s) ==
    IF m = 0 THEN <<0, 0, 0, 0>>
    ELSE LET a == Abs(m)
             e == FloorLog2(a)
             ex == e - s + 127
             fr == (a - Pow2(e)) * Pow2(23 - e)
             sg == IF m < 0 THEN 128 ELSE 0
         IN  <<fr % 256,
               (fr \div 256) % 256,
               ((ex % 2) * 128) + (fr \div 65536),
               sg + (ex \div 2)>>

(***************************************************************************)
(* str.encode                                                              *)
(***************************************************************************)
\* s.encode("latin1"): one byte per code point, the byte being the code point;
\* UnicodeEncodeError above 255.
EncodeLatin1(s) ==
    IF \E i \in DOMAIN s : s[i] > 255
    THEN Raise("UnicodeEncodeError")
    ELSE Return(SubSeq(s, 1, Len(s)))

IsSurrogate(c) == c >= 55296 /\ c <= 57343

\* The UTF-16LE bytes of one code point (a surrogate pair above the BMP).
Utf16Unit(c) ==
    IF c < 65536
    THEN <<c % 256, c \div 256>>
    ELSE LET v == c - 65536
             hi == 55296 + (v \div 1024)
             lo == 56320 + (v % 1024)
         IN  <<hi % 256, hi \div 256, lo % 256, lo \div 256>>

RECURSIVE Utf16Bytes(_)
Utf16Bytes(s) ==
    IF Len(s) = 0 THEN <<>>
    ELSE IF Len(s) = 1 THEN Utf16Unit(s[1])
    ELSE LET h == Len(s) \div 2
         IN  Utf16Bytes(SubSeq(s, 1, h)) \o Utf16Bytes(SubSeq(s, h + 1, Len(s)))

\* s.encode("utf-16-le"): UnicodeEncodeError on a lone surrogate.
EncodeUtf16LE(s) ==
    IF \E i \in DOMAIN s : IsSurrogate(s[i])
    THEN Raise("UnicodeEncodeError")
    ELSE Return(Utf16Bytes(s))

(***************************************************************************)
(* pandas nullable-integer coercion: series.astype("Int32") etc.           *)
(* Integer columns hold ints, floats and nulls.                            *)
(***************************************************************************)
Int32Max == 2147483647
Int32Min == (-2147483647) - 1

IsIntegral(val) ==
    \/ val.k = "int"
    \/ val.k = "float" /\ val.m % Pow2(val.s) = 0

AsInt(val) == IF val.k = "int" THEN val.v ELSE val.m \div Pow2(val.s)

\* The cast is refused (TypeError: cannot safely cast non-equivalent ...) when
\* a value is not integral or does not fit the target type.
astype(series, lo, hi) ==
    IF \E i \in DOMAIN series :
          /\ ~isna(series[i])
          /\ ~(IsIntegral(series[i]) /\ AsInt(series[i]) >= lo /\ AsInt(series[i]) <= hi)
    THEN Raise("TypeError")
    ELSE Return([i \in 1..Len(series) |->
                    IF isna(series[i]) THEN Null ELSE IntV(AsInt(series[i]))])

(***************************************************************************)
(* The fixed-width native encoders: 1-byte prefix, then the payload.       *)
(***************************************************************************)
\* Mutant: the null prefix of the native encoders written as 0x00.
NativeNullField_zero == <<0>>

\* null_prefix = 0xFF, written as bytes([null_prefix]).
NativeNullField == <<255>>

convert_int_to_bcp(series) ==
    LET int_series == astype(series, Int32Min, Int32Max)
    IN  IF Raised(int_series) THEN int_series
        ELSE Return([i \in 1..Len(series) |->
                IF isna(int_series.val[i]) THEN NativeNullField
                ELSE <<4>> \o PackLE(int_series.val[i].v, 4)])

\* Int64: every integer of the model fits.
convert_bigint_to_bcp(series) ==
    LET int_series == astype(series, Int32Min, Int32Max)
    IN  IF Raised(int_series) THEN int_series
        ELSE Return([i \in 1..Len(series) |->
                IF isna(int_series.val[i]) THEN NativeNullField
                ELSE <<8>> \o PackLE(int_series.val[i].v, 8)])

convert_smallint_to_bcp(series) ==
    LET int_series == astype(series, -32768, 32767)
    IN  IF Raised(int_series) THEN int_series
        ELSE Return([i \in 1..Len(series) |->
                IF isna(int_series.val[i]) THEN NativeNullField
                ELSE <<2>> \o PackLE(int_series.val[i].v, 2)])

convert_tinyint_to_bcp(series) ==
    LET int_series == astype(series, 0, 255)
    IN  IF Raised(int_series) THEN int_series
        ELSE Return([i \in 1..Len(series) |->
                IF isna(int_series.val[i]) THEN NativeNullField
                ELSE <<1>> \o PackLE(int_series.val[i].v, 1)])

\* bool(val)
PyBool(val) ==
    CASE val.k = "int" -> val.v # 0
      [] val.k = "float" -> val.m # 0
      [] val.k = "str" -> Len(val.s) > 0
      [] val.k = "rep" -> val.n > 0
      [] val.k = "bytes" -> Len(val.b) > 0
      [] val.k = "ts" -> TRUE

convert_bit_to_bcp(series) ==
    Return([i \in 1..Len(series) |->
        IF isna(series[i]) THEN NativeNullField
        ELSE <<1>> \o PackLE(IF PyBool(series[i]) THEN 1 ELSE 0, 1)])

\* float(val), for the ints and floats a FLOAT / REAL column holds.
PyFloat(val) == IF val.k = "int" THEN FloatV(val.v, 0) ELSE val

convert_float_to_bcp(series) ==
    Return([i \in 1..Len(series) |->
        IF isna(series[i]) THEN NativeNullField
        ELSE <<8>> \o Pack_d(PyFloat(series[i]).m, PyFloat(series[i]).s)])

convert_real_to_bcp(series) ==
    Return([i \in 1..Len(series) |->
        IF isna(series[i]) THEN NativeNullField
        ELSE <<4>> \o Pack_f(PyFloat(series[i]).m, PyFloat(series[i]).s)])

(***************************************************************************)
(* DATE and DATETIME2                                                      *)
(***************************************************************************)
IsLeap(y) == (y % 4 = 0) /\ ((y % 100 # 0) \/ (y % 400 = 0))

DaysBeforeYear(y) ==
    LET p == y - 1 IN (p * 365) + (p \div 4) - (p \div 100) + (p \div 400)

DaysBeforeMonth(y, mo) ==
    <<0, 31, 59, 90, 120, 151, 181, 212, 243, 273, 304, 334>>[mo]
        + (IF mo > 2 /\ IsLeap(y) THEN 1 ELSE 0)

\* datetime.date(y, mo, d).toordinal()
toordinal(y, mo, d) == DaysBeforeYear(y) + DaysBeforeMonth(y, mo) + d

base_ordinal == toordinal(1, 1, 1)

\* Mutant: the three high bytes are kept (payload_full[1:]).
date_bytes_high(val) ==
    SubSeq(PackLE(toordinal(val.y, val.mo, val.d) - base_ordinal, 4), 2, 4)

\* struct.pack("<i", days)[:3]
date_bytes(val) ==
    SubSeq(PackLE(toordinal(val.y, val.mo, val.d) - base_ordinal, 4), 1, 3)

convert_date_to_bcp(series) ==
    Return([i \in 1..Len(series) |->
        IF isna(series[i]) THEN NativeNullField
        ELSE <<3>> \o date_bytes(series[i])])

\* Unsigned numbers too wide for one machine integer, as little-endian
\* base-256 digits.
RECURSIVE MulCarry(_, _, _, _)
MulCarry(digs, f, i, carry) ==
    IF i > Len(digs) THEN <<>>
    ELSE LET t == (digs[i] * f) + carry
         IN  <<t % 256>> \o MulCarry(digs, f, i + 1, t \div 256)

RECURSIVE AddCarry(_, _, _, _)
AddCarry(a, b, i, carry) ==
    IF i > Len(a) THEN <<>>
    ELSE LET t == a[i] + b[i] + carry
         IN  <<t % 256>> \o AddCarry(a, b, i + 1, t \div 256)

\* ticks_100ns = nanos_since_midnight // 100, as struct.pack("<Q", ...).
ticks_100ns(val) ==
    AddCarry(MulCarry(MulCarry(PackLE(val.sec, 8), 10000, 1, 0), 1000, 1, 0),
             PackLE(val.ns \div 100, 8), 1, 0)

\* struct.pack("<Q", ticks_100ns)[:5]
time_bytes(val) == SubSeq(ticks_100ns(val), 1, 5)

\* Mutant: the date is written before the time.
convert_datetime2_date_first(series) ==
    Return([i \in 1..Len(series) |->
        IF isna(series[i]) THEN NativeNullField
        ELSE <<8>> \o date_bytes(series[i]) \o time_bytes(series[i])])

convert_datetime2_to_bcp(series) ==
    Return([i \in 1..Len(series) |->
        IF isna(series[i]) THEN NativeNullField
        ELSE <<8>> \o time_bytes(series[i]) \o date_bytes(series[i])])

(***************************************************************************)
(* VARCHAR, NVARCHAR: 2-byte prefix.  GEOMETRY: 4-byte prefix.             *)
(***************************************************************************)
RECURSIVE DecimalDigits(_)
DecimalDigits(n) ==
    IF n < 10 THEN <<48 + n>> ELSE DecimalDigits(n \div 10) \o <<48 + (n % 10)>>

\* str(n) for an integer n
IntToStr(n) == IF n < 0 THEN <<45>> \o DecimalDigits(-n) ELSE DecimalDigits(n)

\* c * n
Rep(c, n) == SubSeq([i \in 1..n |-> c], 1, n)

\* str(s), for the strings and ints a character column holds.
PyStr(val) ==
    CASE val.k = "str" -> val.s
      [] val.k = "rep" -> Rep(val.c, val.n)
      [] val.k = "int" -> IntToStr(val.v)

\* null_prefix = b"\xFF\xFF", empty_prefix = b"\x00\x00"
CharNullField == <<255, 255>>
CharEmptyField == <<0, 0>>

\* series.apply(process_row).values, and the for-loops that append one record
\* per row: the first row that raises ends the call.
FirstRaise(rows) ==
    IF \E i \in DOMAIN rows : Raised(rows[i])
    THEN rows[CHOOSE i \in DOMAIN rows :
                  Raised(rows[i]) /\ \A j \in 1..(i - 1) : ~Raised(rows[j])]
    ELSE Return([i \in 1..Len(rows) |-> rows[i].val])

varchar_process_row(s) ==
    IF isna(s) THEN Return(CharNullField)
    ELSE IF Len(PyStr(s)) = 0 THEN Return(CharEmptyField)
    ELSE LET data_bytes == EncodeLatin1(PyStr(s))
             len_prefix == Pack_H(Len(data_bytes.val))
         IN  IF Raised(data_bytes) THEN data_bytes
             ELSE IF Raised(len_prefix) THEN len_prefix
             ELSE Return(len_prefix.val \o data_bytes.val)

convert_varchar_to_bcp(series) ==
    FirstRaise([i \in 1..Len(series) |-> varchar_process_row(series[i])])

\* Mutant: the prefix holds the number of characters, not of bytes.
nvarchar_process_row_chars(s) ==
    IF isna(s) THEN Return(CharNullField)
    ELSE IF Len(PyStr(s)) = 0 THEN Return(CharEmptyField)
    ELSE LET data_bytes == EncodeUtf16LE(PyStr(s))
             len_prefix == Pack_H(Len(PyStr(s)))
         IN  IF Raised(data_bytes) THEN data_bytes
             ELSE IF Raised(len_prefix) THEN len_prefix
             ELSE Return(len_prefix.val \o data_bytes.val)

nvarchar_process_row(s) ==
    IF isna(s) THEN Return(CharNullField)
    ELSE IF Len(PyStr(s)) = 0 THEN Return(CharEmptyField)
    ELSE LET data_bytes == EncodeUtf16LE(PyStr(s))
             len_prefix == Pack_H(Len(data_bytes.val))
         IN  IF Raised(data_bytes) THEN data_bytes
             ELSE IF Raised(len_prefix) THEN len_prefix
             ELSE Return(len_prefix.val \o data_bytes.val)

convert_nvarchar_to_bcp(series) ==
    FirstRaise([i \in 1..Len(series) |-> nvarchar_process_row(series[i])])

\* str.isspace, on the code points below 256
IsSpace(c) == c \in ((9..13) \cup (28..32) \cup {133, 160})

\* s.strip()
Strip(s) ==
    LET keep == {i \in DOMAIN s : ~IsSpace(s[i])}
    IN  IF keep = {} THEN <<>>
        ELSE SubSeq(s, CHOOSE i \in keep : \A j \in keep : i <= j,
                       CHOOSE i \in keep : \A j \in keep : i >= j)

\* s.startswith(("0x", "0X"))
StartsWith0x(s) == Len(s) >= 2 /\ s[1] = 48 /\ s[2] \in {120, 88}

IsNotSpace(c) == ~IsSpace(c)

\* "".join(s.split())
RemoveSpace(s) == SelectSeq(s, IsNotSpace)

IsHexDigit(c) == c \in ((48..57) \cup (65..70) \cup (97..102))

HexVal(c) ==
    IF c <= 57 THEN c - 48 ELSE IF c <= 70 THEN c - 55 ELSE c - 87

\* bytes.fromhex(s), s without whitespace
fromhex(s) ==
    IF (\E i \in DOMAIN s : ~IsHexDigit(s[i])) \/ Len(s) % 2 = 1
    THEN Raise("ValueError")
    ELSE Return([i \in 1..(Len(s) \div 2) |->
                    (16 * HexVal(s[(2 * i) - 1])) + HexVal(s[2 * i])])

\* The hex-string branch: strip, drop 0x / 0X, drop whitespace, fromhex.
\* The ValueError of fromhex is re-raised as a ValueError.
geometry_from_str(val) ==
    LET s1 == Strip(val)
        s2 == IF StartsWith0x(s1) THEN SubSeq(s1, 3, Len(s1)) ELSE s1
    IN  fromhex(RemoveSpace(s2))

\* Mutant: a string that is not hexadecimal is taken as an empty geometry.
geometry_payload_lenient(val) ==
    IF val.k = "bytes" THEN Return(val.b)
    ELSE IF val.k = "str"
    THEN (IF Raised(geometry_from_str(val.s)) THEN Return(<<>>) ELSE geometry_from_str(val.s))
    ELSE Raise("TypeError")

\* "Normalize to bytes (WKB)"
geometry_payload(val) ==
    IF val.k = "bytes" THEN Return(val.b)
    ELSE IF val.k = "str" THEN geometry_from_str(val.s)
    ELSE Raise("TypeError")

\* np.array(-1, dtype="<i4").tobytes()
GeometryNullField == PackLE(-1, 4)

geometry_row(val) ==
    IF isna(val) THEN Return(GeometryNullField)
    ELSE LET payload == geometry_payload(val)
         IN  IF Raised(payload) THEN payload
             ELSE Return(PackLE(Len(payload.val), 4) \o payload.val)

convert_geometry_to_bcp(series) ==
    FirstRaise([i \in 1..Len(series) |-> geometry_row(series[i])])

(***************************************************************************)
(* BCP_CONVERTER_MAP                                                       *)
(***************************************************************************)
ConverterTags ==
    {"INT", "BIGINT", "SMALLINT", "TINYINT", "BIT", "FLOAT", "REAL", "DATE",
     "DATETIME2", "VARCHAR", "NVARCHAR", "GEOMETRY"}

\* BCP_CONVERTER_MAP[tag](series)
BCP_CONVERTER_MAP(tag, series) ==
    CASE tag = "INT" -> convert_int_to_bcp(series)
      [] tag = "BIGINT" -> convert_bigint_to_bcp(series)
      [] tag = "SMALLINT" -> convert_smallint_to_bcp(series)
      [] tag = "TINYINT" -> convert_tinyint_to_bcp(series)
      [] tag = "BIT" -> convert_bit_to_bcp(series)
      [] tag = "FLOAT" -> convert_float_to_bcp(series)
      [] tag = "REAL" -> convert_real_to_bcp(series)
      [] tag = "DATE" -> convert_date_to_bcp(series)
      [] tag = "DATETIME2" -> convert_datetime2_to_bcp(series)
      [] tag = "VARCHAR" -> convert_varchar_to_bcp(series)
      [] tag = "NVARCHAR" -> convert_nvarchar_to_bcp(series)
      [] tag = "GEOMETRY" -> convert_geometry_to_bcp(series)

(***************************************************************************)
(* xml_builder.py                                                          *)
(*                                                                         *)
(* A table schema is the sequence of the dict's items in insertion order:  *)
(* [name, type, max_length], max_length Null when the key is absent.  The  *)
(* descriptor is the element tree: the FIELD elements under RECORD and the *)
(* COLUMN elements under ROW, each a record of its attributes.  Attribute  *)
(* values made by str(int) are digit strings.                              *)
(***************************************************************************)
BCP_NATIVE_TYPE_MAP ==
    [t \in {"BIGINT", "INT", "SMALLINT", "TINYINT", "BIT", "FLOAT", "REAL",
            "DATE", "DATETIME2", "VARCHAR", "NVARCHAR"} |->
        CASE t = "BIGINT" -> [field_type |-> "NativePrefix", prefix_length |-> 1, column_type |-> "SQLBIGINT"]
          [] t = "INT" -> [field_type |-> "NativePrefix", prefix_length |-> 1, column_type |-> "SQLINT"]
          [] t = "SMALLINT" -> [field_type |-> "NativePrefix", prefix_length |-> 1, column_type |-> "SQLSMALLINT"]
          [] t = "TINYINT" -> [field_type |-> "NativePrefix", prefix_length |-> 1, column_type |-> "SQLTINYINT"]
          [] t = "BIT" -> [field_type |-> "NativePrefix", prefix_length |-> 1, column_type |-> "SQLBIT"]
          [] t = "FLOAT" -> [field_type |-> "NativePrefix", prefix_length |-> 1, column_type |-> "SQLFLT8"]
          [] t = "REAL" -> [field_type |-> "NativePrefix", prefix_length |-> 1, column_type |-> "SQLFLT4"]
          [] t = "DATE" -> [field_type |-> "NativePrefix", prefix_length |-> 1, column_type |-> "SQLDATE"]
          [] t = "DATETIME2" -> [field_type |-> "NativePrefix", prefix_length |-> 1, column_type |-> "SQLDATETIME2"]
          [] t = "VARCHAR" -> [field_type |-> "CharPrefix", prefix_length |-> 2, column_type |-> "SQLVARYCHAR"]
          [] t = "NVARCHAR" -> [field_type |-> "NCharPrefix", prefix_length |-> 2, column_type |-> "SQLNVARCHAR"]]

\* info['type'].upper(), on the type strings of the model
upper(s) ==
    CASE s = "int" -> "INT"
      [] s = "varchar" -> "VARCHAR"
      [] s = "xml" -> "XML"
      [] OTHER -> s

DefaultCollation == "SQL_Latin1_General_CP1_CI_AS"

\* Mutant: the field counter is not advanced.
NextFieldId_stuck(field_id) == field_id

\* field_id += 1
NextFieldId(field_id) == field_id + 1

\* Mutant: a character column without max_length is given MAX_LENGTH "None".
xml_field_unchecked(col, field_id, collation) ==
    LET sql_type == upper(col.type)
        mapping == BCP_NATIVE_TYPE_MAP[sql_type]
    IN  IF sql_type \notin DOMAIN BCP_NATIVE_TYPE_MAP THEN Raise("ValueError")
        ELSE IF mapping.field_type = "NativePrefix"
        THEN Return([ID |-> IntToStr(field_id), xsi_type |-> "NativePrefix",
                     PREFIX_LENGTH |-> IntToStr(mapping.prefix_length)])
        ELSE Return([ID |-> IntToStr(field_id), xsi_type |-> mapping.field_type,
                     PREFIX_LENGTH |-> IntToStr(mapping.prefix_length),
                     MAX_LENGTH |-> IF isna(col.max_length) THEN <<78, 111, 110, 101>>
                                    ELSE IntToStr(col.max_length.v),
                     COLLATION |-> collation])

\* The FIELD element of one column, or the ValueError the column raises.
xml_field(col, field_id, collation) ==
    LET sql_type == upper(col.type)
        mapping == BCP_NATIVE_TYPE_MAP[sql_type]
    IN  IF sql_type \notin DOMAIN BCP_NATIVE_TYPE_MAP THEN Raise("ValueError")
        ELSE IF mapping.field_type = "NativePrefix"
        THEN Return([ID |-> IntToStr(field_id), xsi_type |-> "NativePrefix",
                     PREFIX_LENGTH |-> IntToStr(mapping.prefix_length)])
        ELSE IF mapping.field_type \in {"CharPrefix", "NCharPrefix"}
        THEN IF isna(col.max_length) THEN Raise("ValueError")
             ELSE Return([ID |-> IntToStr(field_id), xsi_type |-> mapping.field_type,
                          PREFIX_LENGTH |-> IntToStr(mapping.prefix_length),
                          MAX_LENGTH |-> IntToStr(col.max_length.v),
                          COLLATION |-> collation])
        ELSE Raise("ValueError")

\* The COLUMN element of one column.
xml_column(col, field_id) ==
    [SOURCE |-> IntToStr(field_id), NAME |-> col.name,
     xsi_type |-> BCP_NATIVE_TYPE_MAP[upper(col.type)].column_type]

\* for col_name, info in table_schema.items(): ...
RECURSIVE xml_loop(_, _, _, _, _)
xml_loop(table_schema, i, field_id, record, row) ==
    IF i > Len(table_schema) THEN Return([RECORD |-> record, ROW |-> row])
    ELSE LET field == xml_field(table_schema[i], field_id, DefaultCollation)
         IN  IF Raised(field) THEN field
             ELSE xml_loop(table_schema, i + 1, NextFieldId(field_id),
                           Append(record, field.val),
                           Append(row, xml_column(table_schema[i], field_id)))

generate_bcp_xml(table_schema) == xml_loop(table_schema, 1, 1, <<>>, <<>>)

(***************************************************************************)
(* State                                                                   *)
(***************************************************************************)
VARIABLES
    args,       \* the arguments of the call under way
    ret,        \* what the call returned or raised; exc = "pending" until then
    pc,         \* the position of bulk_insert_bcp_native
    xml_format_file,            \* the .xml file: [exists, content]
    dat_file,                   \* the .dat file: [exists, content]
    converted_column_arrays,    \* the encoded columns so far
    encoder_runs,               \* how many times a converter was called
    loader_runs,                \* how many times subprocess.run was called
    log                         \* what logger.error was given

vars == <<args, ret, pc, xml_format_file, dat_file, converted_column_arrays,
          encoder_runs, loader_runs, log>>

Pending == [exc |-> "pending", val |-> <<>>]
\* A file: absent, or present and holding all of what was written to it
\* (complete) or nothing of it (the write failed after open created it).
NoFile == [exists |-> FALSE, complete |-> FALSE, content |-> <<>>]
File(c) == [exists |-> TRUE, complete |-> TRUE, content |-> c]
EmptyFile == [exists |-> TRUE, complete |-> FALSE, content |-> <<>>]

\* The rest of the state while a pure function is the call under way.
Idle ==
    /\ xml_format_file = NoFile
    /\ dat_file = NoFile
    /\ converted_column_arrays = <<>>
    /\ encoder_runs = 0
    /\ loader_runs = 0
    /\ log = <<>>

\* Text of the model, as code points.
S_hi == <<104, 105>>
S_eacute == <<233>>
S_euro == <<8364>>
S_emoji == <<128512>>
S_surrogate == <<55296>>
(***************************************************************************)
(* The encoders as pure functions: one call of BCP_CONVERTER_MAP[tag] on a *)
(* column of at most MaxRows values.                                       *)
(***************************************************************************)
\* The values a column of each type is given, the unencodable ones included.
ValuesOf(tag) ==
    CASE tag \in {"INT", "BIGINT"} -> {Null, IntV(5), IntV(-2), FloatV(4, 1), FloatV(3, 1)}
      [] tag = "SMALLINT" -> {Null, IntV(5), IntV(-2), IntV(32767), IntV(32768)}
      [] tag = "TINYINT" -> {Null, IntV(5), IntV(255), IntV(256), IntV(-1)}
      [] tag = "BIT" -> {Null, IntV(0), IntV(1), IntV(7), StrV(S_hi)}
      [] tag \in {"FLOAT", "REAL"} -> {Null, IntV(5), FloatV(3, 1), FloatV(-2, 0), FloatV(0, 0)}
      [] tag \in {"DATE", "DATETIME2"} ->
            {Null, TsV(2000, 1, 1, 0, 0), TsV(2024, 2, 29, 86399, 999999999),
             TsV(1970, 1, 1, 1, 100)}
      [] tag = "VARCHAR" ->
            {Null, StrV(<<>>), StrV(S_hi), StrV(S_eacute), StrV(S_euro), IntV(5)}
      [] tag = "NVARCHAR" ->
            {Null, StrV(<<>>), StrV(S_hi), StrV(S_euro), StrV(S_emoji), StrV(S_surrogate)}
      [] tag = "GEOMETRY" ->
            {Null, BytesV(<<>>), BytesV(<<1, 2>>), StrV(<<>>),
             StrV(<<48, 120, 48, 49, 48, 50>>),          \* "0x0102"
             StrV(<<32, 48, 88, 32, 97, 66, 32>>),       \* " 0X aB "
             StrV(<<48, 49, 50>>),                       \* "012"
             StrV(<<80, 79, 73, 78, 84, 40, 49, 32, 50, 41>>),   \* "POINT(1 2)"
             StrV(<<123, 125>>),                         \* "{}"
             IntV(5)}

SeqsUpTo(S, n) == UNION {[1..m -> S] : m \in 0..n}

\* One call of the encoder of a tag on one of the given columns.
EncInitWith(columns) ==
    /\ \E tag \in ConverterTags : \E series \in columns[tag] :
          args = [fn |-> "convert", tag |-> tag, series |-> series]
    /\ ret = Pending
    /\ pc = "call"
    /\ Idle

ShortColumns(tag) == SeqsUpTo(ValuesOf(tag), MaxRows)

EncInit == EncInitWith([tag \in ConverterTags |-> ShortColumns(tag)])

Convert ==
    /\ pc = "call"
    /\ args.fn = "convert"
    /\ ret' = BCP_CONVERTER_MAP(args.tag, args.series)
    /\ pc' = "done"
    /\ UNCHANGED <<args, xml_format_file, dat_file, converted_column_arrays,
                   encoder_runs, loader_runs, log>>

EncNext == Convert

SpecEnc == EncInit /\ [][EncNext]_vars

\* The same with, besides, text whose encoding is as long as a 2-byte prefix
\* can say, a little shorter, and longer.
LongValuesOf(tag) ==
    CASE tag = "VARCHAR" -> {RepV(97, 65534), RepV(97, 65535), RepV(97, 65536)}
      [] tag = "NVARCHAR" -> {RepV(97, 32767), RepV(97, 32768)}
      [] OTHER -> {}

LongColumns(tag) == ShortColumns(tag) \cup {<<v>> : v \in LongValuesOf(tag)}

EncLongInit == EncInitWith([tag \in ConverterTags |-> LongColumns(tag)])

SpecEncLong == EncLongInit /\ [][EncNext]_vars

(***************************************************************************)
(* The DATE and DATETIME2 encoders on columns of at most MaxRows values:   *)
(* the first and the last days of the calendar, the days whose count       *)
(* crosses a byte (255/256, 65535/65536), and the times whose tick count   *)
(* is 0, 1, crosses 2^24 and 2^32, and is the last of the day.             *)
(***************************************************************************)
DateTimeValues ==
    {Null,
     TsV(1, 1, 1, 0, 0),
     TsV(1, 1, 2, 0, 100),
     TsV(1, 9, 13, 0, 199),
     TsV(1, 9, 14, 429, 496729500),
     TsV(180, 6, 6, 429, 496729600),
     TsV(180, 6, 7, 1, 677721600),
     TsV(2024, 2, 29, 86399, 999999999),
     TsV(9999, 12, 30, 86399, 999999900),
     TsV(9999, 12, 31, 86399, 999999999),
     TsV(9999, 12, 31, 0, 0),
     TsV(1, 1, 1, 86399, 999999999)}

DateColumns(tag) ==
    IF tag \in {"DATE", "DATETIME2"} THEN SeqsUpTo(DateTimeValues, MaxRows) ELSE {}

DateInit == EncInitWith([tag \in ConverterTags |-> DateColumns(tag)])

SpecDates == DateInit /\ [][EncNext]_vars

(***************************************************************************)
(* generate_bcp_xml as a pure function: one call on a schema of at most    *)
(* MaxCols columns.                                                        *)
(***************************************************************************)
ColNames == <<"a", "b", "c", "d", "e">>

\* The type strings a schema is given: every tag that has an encoder, a
\* lower-case spelling, and a type that has none.
XmlTypes == ConverterTags \cup {"int", "XML"}

\* The schemas of n columns with types from T, column i named ColNames[i].
SchemasOf(T, n) ==
    {[i \in 1..n |-> [name |-> ColNames[i], type |-> f[i][1], max_length |-> f[i][2]]] :
        f \in [1..n -> T \X {Null, IntV(10)}]}

XmlInit ==
    /\ \E n \in 0..MaxCols : \E schema \in SchemasOf(XmlTypes, n) :
          args = [fn |-> "generate_bcp_xml", table_schema |-> schema]
    /\ ret = Pending
    /\ pc = "call"
    /\ Idle

GenerateBcpXml ==
    /\ pc = "call"
    /\ args.fn = "generate_bcp_xml"
    /\ ret' = generate_bcp_xml(args.table_schema)
    /\ pc' = "done"
    /\ UNCHANGED <<args, xml_format_file, dat_file, converted_column_arrays,
                   encoder_runs, loader_runs, log>>

XmlNext == GenerateBcpXml

SpecXml == XmlInit /\ [][XmlNext]_vars

(***************************************************************************)
(* bulk_insert.py: bulk_insert_bcp_native                                  *)
(*                                                                         *)
(* A DataFrame is [nrows, columns, data]: the number of rows, the set of   *)
(* column names, and under data[i] the column named like the schema's i-th *)
(* column (<<>> when the DataFrame has no such column).  An optional       *)
(* string is "" when it is None.                                           *)
(***************************************************************************)
\* df.empty: no rows or no columns
df_empty(df) == df.nrows = 0 \/ df.columns = {}

\* Mutant: the columns are stacked one under the other (np.vstack).
hstack_columns(arrays) ==
    IF Len(arrays) = 0 THEN Raise("ValueError") ELSE Return(arrays)

\* np.hstack of the (N, 1) columns: the (N, C) array, as a sequence of rows.
\* ValueError when there is no array to stack.
hstack(arrays) ==
    IF Len(arrays) = 0 THEN Raise("ValueError")
    ELSE Return([r \in 1..Len(arrays[1]) |-> [c \in 1..Len(arrays) |-> arrays[c][r]]])

\* bcp_array.ravel(): row after row
RECURSIVE ravel(_)
ravel(rows) == IF Len(rows) = 0 THEN <<>> ELSE Head(rows) \o ravel(Tail(rows))

\* b''.join(fields)
RECURSIVE join(_)
join(fields) == IF Len(fields) = 0 THEN <<>> ELSE Head(fields) \o join(Tail(fields))

dat_path == "batch.dat"
xml_path == "batch.xml"

\* The command line handed to subprocess.run, or the ValueError raised when
\* no authentication is given.
bcp_command(a) ==
    LET base == <<"bcp", a.target_table, "in", dat_path, "-S", a.db_server_port,
                  "-f", xml_path, "-F", "1", "-b", "500000", "-e", "bcp_error.log">>
        cert == IF a.trust_server_certificate THEN base \o <<"-u">> ELSE base
    IN  IF a.use_trusted_connection THEN Return(cert \o <<"-T">>)
        ELSE IF a.username # "" /\ a.password # ""
        THEN Return(cert \o <<"-U", a.username, "-P", a.password>>)
        ELSE Raise("ValueError")

\* The command line as logged on CalledProcessError: the element after the
\* first '-P' replaced by '***'.
safe_command(cmd) ==
    IF \E i \in DOMAIN cmd : cmd[i] = "-P"
    THEN LET p_idx == CHOOSE i \in DOMAIN cmd :
                          cmd[i] = "-P" /\ \A j \in 1..(i - 1) : cmd[j] # "-P"
         IN  IF p_idx + 1 <= Len(cmd) THEN [cmd EXCEPT ![p_idx + 1] = "***"] ELSE cmd
    ELSE cmd

\* What open(path, 'w') and f.write(content) leave behind.
IoOutcomes == {"ok", "open_fails", "write_fails"}

written(old, content, io) ==
    CASE io = "ok" -> File(content)
      [] io = "open_fails" -> old
      [] io = "write_fails" -> EmptyFile

\* if os.path.exists(path): os.remove(path)
removed(f) == NoFile

\* if df.empty: warn and return
SkipEmpty ==
    /\ pc = "start"
    /\ df_empty(args.df)
    /\ ret' = Return(<<>>)
    /\ pc' = "done"
    /\ UNCHANGED <<args, xml_format_file, dat_file, converted_column_arrays,
                   encoder_runs, loader_runs, log>>

\* The first try block: generate the descriptor and write the .xml file.
WriteXml ==
    /\ pc = "start"
    /\ ~df_empty(args.df)
    /\ LET xml_content == generate_bcp_xml(args.table_schema)
       IN  IF Raised(xml_content)
           THEN /\ ret' = Raise(xml_content.exc)
                /\ pc' = "done"
                /\ log' = Append(log, [msg |-> "Error generating XML format file", cmd |-> <<>>])
                /\ UNCHANGED xml_format_file
           ELSE \E io \in IoOutcomes :
                /\ xml_format_file' = written(xml_format_file, xml_content.val, io)
                /\ IF io = "ok"
                   THEN /\ pc' = "convert"
                        /\ UNCHANGED <<ret, log>>
                   ELSE /\ ret' = Raise("OSError")
                        /\ pc' = "done"
                        /\ log' = Append(log, [msg |-> "Error generating XML format file", cmd |-> <<>>])
    /\ UNCHANGED <<args, dat_file, converted_column_arrays, encoder_runs, loader_runs>>

\* Mutant: a column whose encoder raises is written as nulls.
ConvertColumn_defaults ==
    /\ pc = "convert"
    /\ Len(converted_column_arrays) < Len(args.table_schema)
    /\ LET i == Len(converted_column_arrays) + 1
           col == args.table_schema[i]
           sql_type == upper(col.type)
           result_array == BCP_CONVERTER_MAP(sql_type, args.df.data[i])
           fail(e) == /\ ret' = Raise(e)
                      /\ pc' = "done"
                      /\ log' = Append(log, [msg |-> "Error creating native .dat file", cmd |-> <<>>])
                      /\ UNCHANGED converted_column_arrays
       IN  IF sql_type \notin ConverterTags
           THEN fail("ValueError") /\ UNCHANGED encoder_runs
           ELSE IF col.name \notin args.df.columns
           THEN fail("ValueError") /\ UNCHANGED encoder_runs
           ELSE /\ encoder_runs' = encoder_runs + 1
                /\ converted_column_arrays' =
                      Append(converted_column_arrays,
                             IF Raised(result_array)
                             THEN [r \in 1..args.df.nrows |-> NativeNullField]
                             ELSE result_array.val)
                /\ UNCHANGED <<ret, pc, log>>
    /\ UNCHANGED <<args, xml_format_file, dat_file, loader_runs>>

\* One turn of the loop over table_schema.items() in the second try block.
ConvertColumn ==
    /\ pc = "convert"
    /\ Len(converted_column_arrays) < Len(args.table_schema)
    /\ LET i == Len(converted_column_arrays) + 1
           col == args.table_schema[i]
           sql_type == upper(col.type)
           result_array == BCP_CONVERTER_MAP(sql_type, args.df.data[i])
           fail(e) == /\ ret' = Raise(e)
                      /\ pc' = "done"
                      /\ log' = Append(log, [msg |-> "Error creating native .dat file", cmd |-> <<>>])
                      /\ UNCHANGED converted_column_arrays
       IN  IF sql_type \notin ConverterTags
           THEN fail("ValueError") /\ UNCHANGED encoder_runs
           ELSE IF col.name \notin args.df.columns
           THEN fail("ValueError") /\ UNCHANGED encoder_runs
           ELSE /\ encoder_runs' = encoder_runs + 1
                /\ IF Raised(result_array)
                   THEN fail(result_array.exc)
                   ELSE /\ converted_column_arrays' = Append(converted_column_arrays, result_array.val)
                        /\ UNCHANGED <<ret, pc, log>>
    /\ UNCHANGED <<args, xml_format_file, dat_file, loader_runs>>

\* The rest of the second try block: stack the columns, join the fields row
\* after row, write the .dat file.
WriteDat ==
    /\ pc = "convert"
    /\ Len(converted_column_arrays) = Len(args.table_schema)
    /\ LET bcp_array == hstack(converted_column_arrays)
       IN  IF Raised(bcp_array)
           THEN /\ ret' = Raise(bcp_array.exc)
                /\ pc' = "done"
                /\ log' = Append(log, [msg |-> "Error creating native .dat file", cmd |-> <<>>])
                /\ UNCHANGED dat_file
           ELSE \E io \in IoOutcomes :
                /\ dat_file' = written(dat_file, join(ravel(bcp_array.val)), io)
                /\ IF io = "ok"
                   THEN /\ pc' = "loader"
                        /\ UNCHANGED <<ret, log>>
                   ELSE /\ ret' = Raise("OSError")
                        /\ pc' = "done"
                        /\ log' = Append(log, [msg |-> "Error creating native .dat file", cmd |-> <<>>])
    /\ UNCHANGED <<args, xml_format_file, converted_column_arrays, encoder_runs, loader_runs>>

\* How subprocess.run(bcp_command, check=True) ends.
LoaderOutcomes == {"none", "CalledProcessError", "FileNotFoundError"}

\* The third try block with its finally clause.
RunLoader ==
    /\ pc = "loader"
    /\ LET cmd == bcp_command(args)
       IN  IF Raised(cmd)
           THEN /\ ret' = Raise(cmd.exc)
                /\ log' = Append(log, [msg |-> "An unexpected error occurred", cmd |-> <<>>])
                /\ UNCHANGED loader_runs
           ELSE \E out \in LoaderOutcomes :
                /\ loader_runs' = loader_runs + 1
                /\ ret' = IF out = "none" THEN Return(<<>>) ELSE Raise(out)
                /\ log' = CASE out = "none" -> log
                            [] out = "CalledProcessError" ->
                                 Append(log, [msg |-> "BCP command failed", cmd |-> safe_command(cmd.val)])
                            [] out = "FileNotFoundError" ->
                                 Append(log, [msg |-> "BCP command not found", cmd |-> <<>>])
    /\ IF args.cleanup_temp_files
       THEN /\ dat_file' = removed(dat_file)
            /\ xml_format_file' = removed(xml_format_file)
       ELSE UNCHANGED <<dat_file, xml_format_file>>
    /\ pc' = "done"
    /\ UNCHANGED <<args, converted_column_arrays, encoder_runs>>

Next == SkipEmpty \/ WriteXml \/ ConvertColumn \/ WriteDat \/ RunLoader

(***************************************************************************)
(* The calls of bulk_insert_bcp_native that are explored.                  *)
(***************************************************************************)
\* An encodable and an unencodable value of each type.
GoodOf(type) ==
    CASE upper(type) = "INT" -> IntV(5)
      [] upper(type) = "VARCHAR" -> StrV(S_hi)
      [] OTHER -> Null

BadOf(type) ==
    CASE upper(type) = "INT" -> FloatV(3, 1)
      [] upper(type) = "VARCHAR" -> StrV(S_euro)
      [] OTHER -> Null

\* Whether generate_bcp_xml refuses the column, by the rules of the format:
\* a type outside the supported tags, a character type without max_length.
Offending(col) ==
    \/ upper(col.type) \notin ConverterTags
    \/ upper(col.type) \in {"VARCHAR", "NVARCHAR"} /\ isna(col.max_length)

\* The n cells a DataFrame holds for a schema column: nulls and encodable
\* values in any arrangement, or one unencodable value among encodable ones.
\* (No cell is read when the schema has an offending column, and those columns
\* hold nulls.)
ColumnsOf(col, n) ==
    IF Offending(col) THEN {[r \in 1..n |-> Null]}
    ELSE [1..n -> {Null, GoodOf(col.type)}]
         \cup {[r \in 1..n |-> IF r = k THEN BadOf(col.type) ELSE GoodOf(col.type)] : k \in 1..n}

\* The DataFrame data of n rows for the columns i.. of the schema, the
\* column at position `missing` being absent.
RECURSIVE DataOf(_, _, _, _)
DataOf(schema, i, n, missing) ==
    IF i > Len(schema) THEN {<<>>}
    ELSE {<<s>> \o rest :
            s \in (IF i = missing THEN {<<>>} ELSE ColumnsOf(schema[i], n)),
            rest \in DataOf(schema, i + 1, n, missing)}

BulkInit(schemas, opts) ==
    /\ \E schema \in schemas, n \in 0..MaxRows, o \in opts :
         \E missing \in 0..Len(schema) :
            \E data \in DataOf(schema, 1, n, missing) :
               args = [fn |-> "bulk_insert_bcp_native",
                       table_schema |-> schema,
                       df |-> [nrows |-> n,
                               columns |-> {schema[i].name : i \in (1..Len(schema)) \ {missing}},
                               data |-> data],
                       target_table |-> "db.dbo.t",
                       db_server_port |-> "srv,1433",
                       use_trusted_connection |-> o.use_trusted_connection,
                       username |-> o.username,
                       password |-> o.password,
                       cleanup_temp_files |-> o.cleanup_temp_files,
                       trust_server_certificate |-> TRUE]
    /\ ret = Pending
    /\ pc = "start"
    /\ Idle

\* A trusted connection, and a user with a password.
Options ==
    {[use_trusted_connection |-> TRUE, username |-> "", password |-> "", cleanup_temp_files |-> FALSE],
     [use_trusted_connection |-> FALSE, username |-> "sa", password |-> "pw", cleanup_temp_files |-> TRUE]}

SchemaTypes == {"INT", "VARCHAR", "XML"}

\* The schemas of at most MaxCols columns; max_length is given or not for
\* the character columns.
Schemas ==
    {s \in UNION {SchemasOf(SchemaTypes, n) : n \in 0..MaxCols} :
        \A i \in DOMAIN s : upper(s[i].type) # "VARCHAR" => isna(s[i].max_length)}

Init == BulkInit(Schemas, Options)

Spec == Init /\ [][Next]_vars

(***************************************************************************)
(* bulk_insert.py: bulk_insert_bcp                                         *)
(*                                                                         *)
(* The temporary CSV file is kept in dat_file: it is the data file handed  *)
(* to bcp.  The command lines are sequences of arguments; the logged line  *)
(* is these joined by spaces.                                              *)
(***************************************************************************)
\* str.encode('utf-8') of one code point
Utf8Unit(c) ==
    IF c < 128 THEN <<c>>
    ELSE IF c < 2048 THEN <<192 + (c \div 64), 128 + (c % 64)>>
    ELSE IF c < 65536
    THEN <<224 + (c \div 4096), 128 + ((c \div 64) % 64), 128 + (c % 64)>>
    ELSE <<240 + (c \div 262144), 128 + ((c \div 4096) % 64),
           128 + ((c \div 64) % 64), 128 + (c % 64)>>

RECURSIVE EncodeUtf8(_)
EncodeUtf8(s) == IF Len(s) = 0 THEN <<>> ELSE Utf8Unit(Head(s)) \o EncodeUtf8(Tail(s))

separator == <<59>>
temp_file == "batch.csv"

\* One line of df.to_csv(sep=separator, index=False, header=False): the cells
\* of row r that need no quoting, joined by the separator, and a newline.
RECURSIVE csv_line(_, _, _)
csv_line(data, r, c) ==
    IF c > Len(data) THEN <<10>>
    ELSE (IF c > 1 THEN separator ELSE <<>>) \o PyStr(data[c][r]) \o csv_line(data, r, c + 1)

RECURSIVE to_csv(_, _)
to_csv(df, r) ==
    IF r > df.nrows THEN <<>>
    ELSE EncodeUtf8(csv_line(df.data, r, 1)) \o to_csv(df, r + 1)

\* The command line of bulk_insert_bcp, or the ValueError raised when no
\* authentication is given.
bcp_command_csv(a) ==
    LET base == <<"bcp", a.target_table, "in", temp_file, "-S", a.db_server_port,
                  "-c", "-t", ";", "-F", "1", "-C", "65001", "-b", "500000",
                  "-e", "bcp_error.log">>
    IN  IF a.use_trusted_connection THEN Return(base \o <<"-T">>)
        ELSE IF a.username # "" /\ a.password # ""
        THEN Return((base \o <<"-U", a.username>>) \o <<"-P", a.password>>)
        ELSE Raise("ValueError")

\* if df.empty: warn and return
SkipEmptyCsv ==
    /\ pc = "csv_start"
    /\ df_empty(args.df)
    /\ ret' = Return(<<>>)
    /\ pc' = "done"
    /\ UNCHANGED <<args, xml_format_file, dat_file, converted_column_arrays,
                   encoder_runs, loader_runs, log>>

\* The first try block: df.to_csv(temp_file, ...)
SaveCsv ==
    /\ pc = "csv_start"
    /\ ~df_empty(args.df)
    /\ \E io \in IoOutcomes :
         /\ dat_file' = written(dat_file, to_csv(args.df, 1), io)
         /\ IF io = "ok"
            THEN /\ pc' = "csv_loader"
                 /\ UNCHANGED <<ret, log>>
            ELSE /\ ret' = Raise("OSError")
                 /\ pc' = "done"
                 /\ log' = Append(log, [msg |-> "Error saving temporary CSV file", cmd |-> <<>>])
    /\ UNCHANGED <<args, xml_format_file, converted_column_arrays, encoder_runs, loader_runs>>

\* The second try block: build the command, run it, log its failure.
RunLoaderCsv ==
    /\ pc = "csv_loader"
    /\ LET cmd == bcp_command_csv(args)
       IN  IF Raised(cmd)
           THEN /\ ret' = Raise(cmd.exc)
                /\ log' = Append(log, [msg |-> "An unexpected error occurred", cmd |-> <<>>])
                /\ UNCHANGED loader_runs
           ELSE \E out \in LoaderOutcomes :
                /\ loader_runs' = loader_runs + 1
                /\ ret' = IF out = "none" THEN Return(<<>>) ELSE Raise(out)
                /\ log' = CASE out = "none" -> log
                            [] out = "CalledProcessError" ->
                                 Append(log, [msg |-> "BCP command failed", cmd |-> safe_command(cmd.val)])
                            [] out = "FileNotFoundError" ->
                                 Append(log, [msg |-> "BCP command not found", cmd |-> <<>>])
    /\ pc' = "done"
    /\ UNCHANGED <<args, xml_format_file, dat_file, converted_column_arrays, encoder_runs>>

(***************************************************************************)
(* The calls of both functions with every combination of connection        *)
(* arguments, on an empty and on a one-cell DataFrame.                     *)
(***************************************************************************)
TableNames == {"db.dbo.t", "-P"}
ServerNames == {"srv,1433", "-P"}
UserNames == {"", "sa", "-P"}
Passwords == {"", "pw", "-P"}

LoaderFrames ==
    {[nrows |-> 0, columns |-> {"a"}, data |-> <<<<>>>>],
     [nrows |-> 1, columns |-> {"a"}, data |-> <<<<IntV(5)>>>>]}

LoaderInit ==
    /\ \E fn \in {"bulk_insert_bcp", "bulk_insert_bcp_native"}, df \in LoaderFrames,
          t \in TableNames, s \in ServerNames, u \in UserNames, p \in Passwords,
          trusted \in BOOLEAN, cert \in BOOLEAN, cleanup \in BOOLEAN :
         /\ fn = "bulk_insert_bcp" => (~cert /\ ~cleanup)
         /\ args = [fn |-> fn,
                    table_schema |-> <<[name |-> "a", type |-> "INT", max_length |-> Null]>>,
                    df |-> df,
                    target_table |-> t,
                    db_server_port |-> s,
                    use_trusted_connection |-> trusted,
                    username |-> u,
                    password |-> p,
                    cleanup_temp_files |-> cleanup,
                    trust_server_certificate |-> cert]
         /\ pc = IF fn = "bulk_insert_bcp" THEN "csv_start" ELSE "start"
    /\ ret = Pending
    /\ Idle

LoaderNext ==
    \/ SkipEmpty \/ WriteXml \/ ConvertColumn \/ WriteDat \/ RunLoader
    \/ SkipEmptyCsv \/ SaveCsv \/ RunLoaderCsv

SpecLoader == LoaderInit /\ [][LoaderNext]_vars

(***************************************************************************)
(* Properties                                                              *)
(***************************************************************************)
\* The number a little-endian prefix holds.
RECURSIVE LEValue(_)
LEValue(bytes) ==
    IF Len(bytes) = 0 THEN 0 ELSE Head(bytes) + (256 * LEValue(Tail(bytes)))

\* The number a digit string holds.
RECURSIVE StrToInt(_)
StrToInt(s) ==
    IF Len(s) = 0 THEN 0
    ELSE (10 * StrToInt(SubSeq(s, 1, Len(s) - 1))) + (s[Len(s)] - 48)

NativeTags ==
    {"INT", "BIGINT", "SMALLINT", "TINYINT", "BIT", "FLOAT", "REAL", "DATE", "DATETIME2"}

EncCallDone == pc = "done" /\ args.fn = "convert"
XmlCallDone == pc = "done" /\ args.fn = "generate_bcp_xml"

\* The width of the prefix the encoder of a tag writes: the length of the
\* field it writes for a null, which is a prefix and nothing more.
EncoderPrefixWidth(tag) == Len(BCP_CONVERTER_MAP(tag, <<Null>>).val[1])

\* The field kinds that describe what the encoder of a tag writes.
EncoderFieldKinds(tag) ==
    CASE tag \in NativeTags -> {"NativePrefix"}
      [] tag = "VARCHAR" -> {"CharPrefix"}
      [] tag = "NVARCHAR" -> {"NCharPrefix"}
      [] tag = "GEOMETRY" -> {"NativePrefix", "CharPrefix", "NCharPrefix"}

\* C1: generate_bcp_xml accepts a column of every tag that has an encoder
\* (a character column with its max_length), and the FIELD it declares has
\* the PREFIX_LENGTH and the kind of what the encoder of the tag writes.
C1_DescriptorMatchesEncoders ==
    (/\ XmlCallDone
     /\ \A i \in DOMAIN args.table_schema :
           /\ upper(args.table_schema[i].type) \in ConverterTags
           /\ ~Offending(args.table_schema[i]))
    => /\ ~Raised(ret)
       /\ \A i \in DOMAIN args.table_schema :
             /\ StrToInt(ret.val.RECORD[i].PREFIX_LENGTH)
                   = EncoderPrefixWidth(upper(args.table_schema[i].type))
             /\ ret.val.RECORD[i].xsi_type
                   \in EncoderFieldKinds(upper(args.table_schema[i].type))

\* The null sentinel of each tag: 0xFF, 0xFF 0xFF, 0xFF 0xFF 0xFF 0xFF.
NullSentinel(tag) ==
    CASE tag \in NativeTags -> <<255>>
      [] tag \in {"VARCHAR", "NVARCHAR"} -> <<255, 255>>
      [] tag = "GEOMETRY" -> <<255, 255, 255, 255>>

\* C2: for every tag, an encoder that returns has written one field per row,
\* and for a null at any row exactly the null sentinel of the tag; a column of
\* nulls alone is always encoded.
C2_NullIsSentinel ==
    EncCallDone =>
       /\ ~Raised(ret) =>
             /\ Len(ret.val) = Len(args.series)
             /\ \A i \in DOMAIN args.series :
                   isna(args.series[i]) => ret.val[i] = NullSentinel(args.tag)
       /\ (\A i \in DOMAIN args.series : isna(args.series[i])) => ~Raised(ret)

C2_Witness ==
    /\ EncCallDone
    /\ args.tag = "GEOMETRY"
    /\ ~Raised(ret)
    /\ Len(args.series) = 2
    /\ ~isna(args.series[1])
    /\ isna(args.series[2])
    /\ ret.val[2] = <<255, 255, 255, 255>>

\* C3: the descriptor of an accepted schema of N columns has N FIELDs with
\* IDs 1..N and N COLUMNs with SOURCEs 1..N in schema order, COLUMN i carrying
\* the name and the target type of the i-th schema column.
TargetType(tag) ==
    CASE tag = "BIGINT" -> "SQLBIGINT" [] tag = "INT" -> "SQLINT"
      [] tag = "SMALLINT" -> "SQLSMALLINT" [] tag = "TINYINT" -> "SQLTINYINT"
      [] tag = "BIT" -> "SQLBIT" [] tag = "FLOAT" -> "SQLFLT8"
      [] tag = "REAL" -> "SQLFLT4" [] tag = "DATE" -> "SQLDATE"
      [] tag = "DATETIME2" -> "SQLDATETIME2" [] tag = "VARCHAR" -> "SQLVARYCHAR"
      [] tag = "NVARCHAR" -> "SQLNVARCHAR" [] tag = "GEOMETRY" -> "SQLUDT"

C3_FieldsAndColumnsInOrder ==
    (XmlCallDone /\ ~Raised(ret)) =>
       LET N == Len(args.table_schema)
       IN  /\ Len(ret.val.RECORD) = N
           /\ Len(ret.val.ROW) = N
           /\ \A i \in 1..N :
                 /\ ret.val.RECORD[i].ID = IntToStr(i)
                 /\ StrToInt(ret.val.RECORD[i].ID) = i
                 /\ StrToInt(ret.val.ROW[i].SOURCE) = i
                 /\ ret.val.ROW[i].SOURCE = ret.val.RECORD[i].ID
                 /\ ret.val.ROW[i].NAME = args.table_schema[i].name
                 /\ ret.val.ROW[i].xsi_type = TargetType(upper(args.table_schema[i].type))

C3_Witness ==
    /\ XmlCallDone
    /\ ~Raised(ret)
    /\ Len(args.table_schema) = 2
    /\ args.table_schema[1].type = "VARCHAR"
    /\ args.table_schema[2].type = "int"
    /\ ret.val.ROW[2] = [SOURCE |-> <<50>>, NAME |-> "b", xsi_type |-> "SQLINT"]

\* C9: a non-null VARCHAR / NVARCHAR value is encoded as a 2-byte
\* little-endian prefix that holds the byte length of the payload, then that
\* many bytes: one byte per character, the character's code, for VARCHAR; two
\* bytes per character of the Basic Multilingual Plane, low byte first, for
\* NVARCHAR.  The empty string is 0x0000 and no payload, which is not the null
\* encoding.
IsBMP(text) == \A j \in DOMAIN text : text[j] < 65536

C9_CharFieldLayout ==
    (EncCallDone /\ args.tag \in {"VARCHAR", "NVARCHAR"} /\ ~Raised(ret)) =>
       \A i \in DOMAIN args.series :
          ~isna(args.series[i]) =>
             LET field == ret.val[i]
                 text == PyStr(args.series[i])
                 n == Len(field) - 2
             IN  /\ Len(field) >= 2
                 /\ LEValue(SubSeq(field, 1, 2)) = n
                 /\ args.tag = "VARCHAR" =>
                       /\ n = Len(text)
                       /\ \A j \in 1..n : field[2 + j] = text[j]
                 /\ (args.tag = "NVARCHAR" /\ IsBMP(text)) =>
                       /\ n = 2 * Len(text)
                       /\ \A j \in 1..Len(text) :
                             field[1 + (2 * j)] + (256 * field[2 + (2 * j)]) = text[j]
                 /\ Len(text) = 0 =>
                       field = <<0, 0>> /\ field # NullSentinel(args.tag)

\* encode(NVARCHAR, "hi") = 04 00 68 00 69 00, beside an empty string.
C9_Witness ==
    /\ EncCallDone
    /\ args.tag = "NVARCHAR"
    /\ args.series = <<StrV(S_hi), StrV(<<>>)>>
    /\ ret = Return(<<<<4, 0, 104, 0, 105, 0>>, <<0, 0>>>>)

\* A hexadecimal string: after the surrounding whitespace and an optional
\* 0x / 0X, hexadecimal digits in pairs, whitespace allowed among them.
IsHexString(s) ==
    LET t == Strip(s)
        body == IF StartsWith0x(t) THEN SubSeq(t, 3, Len(t)) ELSE t
    IN  /\ \A i \in DOMAIN body : IsHexDigit(body[i]) \/ IsSpace(body[i])
        /\ Cardinality({i \in DOMAIN body : IsHexDigit(body[i])}) % 2 = 0

GeometryAccepts(val) == val.k = "bytes" \/ (val.k = "str" /\ IsHexString(val.s))

\* The rows of a geometry column that hold something else than a null, raw
\* bytes or a hexadecimal string.
GeometryRefused(series) ==
    {i \in DOMAIN series : ~isna(series[i]) /\ ~GeometryAccepts(series[i])}

FirstOf(S) == CHOOSE i \in S : \A j \in S : i <= j

\* C10 as claimed: every non-null geometry value that is neither raw bytes
\* nor a hexadecimal string fails with a TypeError.
C10_RefusedWithTypeError ==
    (EncCallDone /\ args.tag = "GEOMETRY") =>
       /\ GeometryRefused(args.series) = {} => ~Raised(ret)
       /\ GeometryRefused(args.series) # {} => ret = Raise("TypeError")

\* C10, amended: convert_geometry_to_bcp returns exactly when every non-null
\* value is raw bytes or a hexadecimal string; otherwise it returns nothing and
\* raises, for the first other value, a ValueError when that value is a text
\* string and a TypeError when it is anything else.
C10_RefusedWithValueOrTypeError ==
    (EncCallDone /\ args.tag = "GEOMETRY") =>
       /\ GeometryRefused(args.series) = {} => ~Raised(ret)
       /\ GeometryRefused(args.series) # {} =>
             ret = Raise(IF args.series[FirstOf(GeometryRefused(args.series))].k = "str"
                         THEN "ValueError" ELSE "TypeError")

\* A well-known-text string after an accepted hexadecimal string.
C10_Witness ==
    /\ EncCallDone
    /\ args.tag = "GEOMETRY"
    /\ Len(args.series) = 2
    /\ args.series[1] = StrV(<<32, 48, 88, 32, 97, 66, 32>>)
    /\ args.series[2] = StrV(<<80, 79, 73, 78, 84, 40, 49, 32, 50, 41>>)
    /\ ret = Raise("ValueError")

(***************************************************************************)
(* A reader of the payload that knows, for each column, the prefix width   *)
(* the descriptor declares, and that a prefix of 0xFF bytes means null.    *)
(***************************************************************************)
Min(a, b) == IF a <= b THEN a ELSE b

\* The fields k..total as the reader cuts them from the bytes left; bytes left
\* over after the last field come out as a field more.
RECURSIVE ReadFields(_, _, _, _)
ReadFields(bytes, widths, k, total) ==
    IF k > total THEN (IF Len(bytes) = 0 THEN <<>> ELSE <<bytes>>)
    ELSE LET w == widths[((k - 1) % Len(widths)) + 1]
             prefix == SubSeq(bytes, 1, Min(w, Len(bytes)))
             n == IF prefix = [i \in 1..w |-> 255] THEN 0 ELSE LEValue(prefix)
             end == Min(w + n, Len(bytes))
         IN  <<SubSeq(bytes, 1, end)>>
                 \o ReadFields(SubSeq(bytes, end + 1, Len(bytes)), widths, k + 1, total)

\* The descriptor of the table whose one column has the given type.
OneColumnXml(tag) ==
    generate_bcp_xml(<<[name |-> "a", type |-> tag, max_length |-> IntV(10)]>>)

\* The payload of the table whose one column is the encoded column.
OneColumnPayload(column) == join(ravel(hstack(<<column>>).val))

\* C5: in the payload of an encoded table (here of one column, of a type the
\* descriptor generator accepts), the prefix of every non-null field holds the
\* number of payload bytes after it and is not the null sentinel of the type,
\* and a reader that knows the declared prefix width and the sentinel cuts the
\* payload into exactly the encoded fields.
C5_SelfDescribingFraming ==
    (EncCallDone /\ ~Raised(ret) /\ ~Raised(OneColumnXml(args.tag))) =>
       LET w == StrToInt(OneColumnXml(args.tag).val.RECORD[1].PREFIX_LENGTH)
       IN  /\ \A i \in DOMAIN args.series :
                 ~isna(args.series[i]) =>
                    /\ Len(ret.val[i]) >= w
                    /\ LEValue(SubSeq(ret.val[i], 1, w)) = Len(ret.val[i]) - w
                    /\ SubSeq(ret.val[i], 1, w) # NullSentinel(args.tag)
           /\ ReadFields(OneColumnPayload(ret.val), <<w>>, 1, Len(args.series)) = ret.val

(***************************************************************************)
(* Properties of bulk_insert_bcp_native                                    *)
(***************************************************************************)
BulkCall == args.fn = "bulk_insert_bcp_native"

\* The field of row r and column c of the table, as the encoder of the
\* column's type writes it.
FieldOf(r, c) ==
    BCP_CONVERTER_MAP(upper(args.table_schema[c].type), args.df.data[c]).val[r]

\* Row 1's fields in schema column order, then row 2's, and so on: the k-th
\* field and those after it.
RECURSIVE RowMajorFrom(_, _, _)
RowMajorFrom(k, R, C) ==
    IF k > R * C THEN <<>>
    ELSE FieldOf(((k - 1) \div C) + 1, ((k - 1) % C) + 1) \o RowMajorFrom(k + 1, R, C)

RECURSIVE SumOfFieldLengths(_, _, _)
SumOfFieldLengths(k, R, C) ==
    IF k > R * C THEN 0
    ELSE Len(FieldOf(((k - 1) \div C) + 1, ((k - 1) % C) + 1)) + SumOfFieldLengths(k + 1, R, C)

\* C4: the payload written is the row-major concatenation of the encoded
\* fields, nothing between or around them, and its length is the sum of the
\* lengths of the R * C fields.
C4_PayloadIsRowMajor ==
    (BulkCall /\ dat_file.complete) =>
       LET R == args.df.nrows
           C == Len(args.table_schema)
       IN  /\ dat_file.content = RowMajorFrom(1, R, C)
           /\ Len(dat_file.content) = SumOfFieldLengths(1, R, C)

\* Two rows of a VARCHAR and an INT column, fields of four lengths.
C4_Witness ==
    /\ BulkCall
    /\ dat_file.complete
    /\ Len(args.table_schema) = 2
    /\ args.df.data = <<<<Null, StrV(S_hi)>>, <<IntV(5), Null>>>>
    /\ args.table_schema[1].type = "VARCHAR"
    /\ dat_file.content = <<255, 255, 4, 5, 0, 0, 0, 2, 0, 104, 105, 255>>

HasOffending == \E i \in DOMAIN args.table_schema : Offending(args.table_schema[i])

\* C6 as claimed: with an offending column anywhere in the schema,
\* generate_bcp_xml raises and returns nothing, and bulk_insert_bcp_native
\* raises, having written no file and encoded no column.
C6_OffendingSchemaRaises ==
    (BulkCall /\ HasOffending) =>
       /\ generate_bcp_xml(args.table_schema) = Raise("ValueError")
       /\ ~xml_format_file.exists
       /\ ~dat_file.exists
       /\ encoder_runs = 0
       /\ pc = "done" => Raised(ret)

\* C6, amended: with an offending column anywhere in the schema,
\* generate_bcp_xml raises and returns nothing, and bulk_insert_bcp_native
\* writes no file, encodes no column and does not run the loader; it raises
\* when the DataFrame is not empty, and returns without raising when it is.
C6_OffendingSchemaNothingWritten ==
    (BulkCall /\ HasOffending) =>
       /\ generate_bcp_xml(args.table_schema) = Raise("ValueError")
       /\ ~xml_format_file.exists
       /\ ~dat_file.exists
       /\ encoder_runs = 0
       /\ loader_runs = 0
       /\ pc = "done" =>
             ret = (IF df_empty(args.df) THEN Return(<<>>) ELSE Raise("ValueError"))

\* A character column without max_length after a valid column.
C6_Witness ==
    /\ BulkCall
    /\ pc = "done"
    /\ Len(args.table_schema) = 2
    /\ ~Offending(args.table_schema[1])
    /\ args.table_schema[2].type = "VARCHAR"
    /\ isna(args.table_schema[2].max_length)
    /\ args.df.nrows = 2
    /\ args.df.columns = {"a", "b"}
    /\ ret = Raise("ValueError")

HasMissing == \E i \in DOMAIN args.table_schema : args.table_schema[i].name \notin args.df.columns

\* C7: when a column of the schema is absent from a (non-empty) DataFrame,
\* bulk_insert_bcp_native raises, and at that moment no encoder has been run
\* and no file has been written (calls in which writing a file failed are
\* left aside).
C7_MissingColumnRaisesFirst ==
    (BulkCall /\ HasMissing /\ ~df_empty(args.df) /\ pc = "done" /\ ret # Raise("OSError")) =>
       /\ Raised(ret)
       /\ encoder_runs = 0
       /\ ~xml_format_file.exists
       /\ ~dat_file.exists

\* Whether the encoder of some column the DataFrame has raises on it.
SomeEncoderRaises ==
    \E i \in DOMAIN args.table_schema :
        /\ args.table_schema[i].name \in args.df.columns
        /\ upper(args.table_schema[i].type) \in ConverterTags
        /\ Raised(BCP_CONVERTER_MAP(upper(args.table_schema[i].type), args.df.data[i]))

\* C8: when the encoder of any column raises on any row, no payload file is
\* written, the loader is not run, and the call raises; the loader is run only
\* when every column has been encoded and the descriptor file and the payload
\* file, holding every field of every row, are written.
C8_NoPartialPayload ==
    (BulkCall /\ SomeEncoderRaises /\ ~df_empty(args.df)) =>
       /\ ~dat_file.exists
       /\ loader_runs = 0
       /\ pc = "done" => Raised(ret)

C8_LoaderAfterFiles ==
    (loader_runs' > loader_runs) =>
       /\ ~SomeEncoderRaises
       /\ encoder_runs = Len(args.table_schema)
       /\ xml_format_file = File(generate_bcp_xml(args.table_schema).val)
       /\ dat_file = File(RowMajorFrom(1, args.df.nrows, Len(args.table_schema)))

C8_AllOrNothing == [](C8_NoPartialPayload) /\ [][C8_LoaderAfterFiles]_vars

\* The second column's encoder raised on the second row, after the first
\* column was encoded and the descriptor written.
C8_Witness ==
    /\ BulkCall
    /\ pc = "done"
    /\ encoder_runs = 2
    /\ args.df.data[2] = <<IntV(5), FloatV(3, 1)>>
    /\ xml_format_file.complete
    /\ ret = Raise("TypeError")

(***************************************************************************)
(* Properties of the logged command line                                   *)
(***************************************************************************)
\* Whether the call authenticates with the supplied password: the command
\* line then ends with '-P' and the password.
UsesPassword ==
    ~args.use_trusted_connection /\ args.username # "" /\ args.password # ""

\* C11: when the loader fails, the command line that bulk_insert_bcp and
\* bulk_insert_bcp_native log does not hold the supplied password: the
\* argument at the password's place, the last one, is '***', whatever the
\* target table, server, username and password are.
C11_PasswordRedacted ==
    \A i \in DOMAIN log :
        (log[i].msg = "BCP command failed" /\ UsesPassword) =>
            /\ log[i].cmd[Len(log[i].cmd)] = "***"
            /\ (args.password # "-P" => \A j \in DOMAIN log[i].cmd : log[i].cmd[j] # args.password)

(***************************************************************************)
(* Properties of the DATE and DATETIME2 fields                             *)
(***************************************************************************)
\* The days from 0001-01-01 to a day of the proleptic Gregorian calendar,
\* counted by 400-year eras and by days of a year that starts in March.
DaysFromCivil(y, mo, d) ==
    LET yy == IF mo <= 2 THEN y - 1 ELSE y
        era == yy \div 400
        yoe == yy - (era * 400)
        mp == IF mo > 2 THEN mo - 3 ELSE mo + 9
        doy == (((153 * mp) + 2) \div 5) + (d - 1)
        doe == (yoe * 365) + (yoe \div 4) - (yoe \div 100) + doy
    IN  (era * 146097) + doe - 306

\* Long division of a little-endian base-256 number by a small divisor: the
\* remainder of the digits from i up, and the quotient.
RECURSIVE RemFrom(_, _, _)
RemFrom(digs, d, i) ==
    IF i > Len(digs) THEN 0 ELSE ((RemFrom(digs, d, i + 1) * 256) + digs[i]) % d

Quot(digs, d) ==
    [i \in 1..Len(digs) |-> ((RemFrom(digs, d, i + 1) * 256) + digs[i]) \div d]

\* What a reader makes of a little-endian count of 100 ns ticks: the whole
\* seconds and the ticks within the second.
ReadTicks(bytes) ==
    LET ms == Quot(bytes, 10000)
    IN  [sec |-> LEValue(Quot(ms, 1000)),
         ticks |-> (RemFrom(ms, 1000, 1) * 10000) + RemFrom(bytes, 10000, 1)]

TicksOf(val) == [sec |-> val.sec, ticks |-> val.ns \div 100]

DateCallDone == EncCallDone /\ args.tag \in {"DATE", "DATETIME2"} /\ ~Raised(ret)

\* C12: a non-null DATETIME2 value is encoded as the byte 08 and 8 bytes:
\* first the 5-byte little-endian count of 100 ns ticks since midnight, then
\* the 3-byte little-endian count of days since 0001-01-01, these 3 bytes
\* being the payload convert_date_to_bcp writes for the same day.
C12_Datetime2Layout ==
    (DateCallDone /\ args.tag = "DATETIME2") =>
        \A i \in DOMAIN args.series :
            LET val == args.series[i]
                field == ret.val[i]
            IN  ~isna(val) =>
                  /\ Len(field) = 9
                  /\ field[1] = 8
                  /\ ReadTicks(SubSeq(field, 2, 6)) = TicksOf(val)
                  /\ LEValue(SubSeq(field, 7, 9)) = DaysFromCivil(val.y, val.mo, val.d)
                  /\ SubSeq(field, 7, 9) = SubSeq(convert_date_to_bcp(<<val>>).val[1], 2, 4)

\* The last tick of 2024-02-29, after a null.
C12_Witness ==
    /\ DateCallDone
    /\ args.tag = "DATETIME2"
    /\ args.series = <<Null, TsV(2024, 2, 29, 86399, 999999999)>>
    /\ ret.val[2] = <<8, 255, 191, 105, 42, 201, 128, 70, 11>>

\* The date and the time bytes of an encoded field.
DatePart(tag, field) == IF tag = "DATE" THEN SubSeq(field, 2, 4) ELSE SubSeq(field, 7, 9)
TimePart(field) == SubSeq(field, 2, 6)

\* C14: the truncations lose nothing.  The byte dropped from the 4-byte day
\* count and the three bytes dropped from the 8-byte tick count are zero, the
\* bytes kept read back as the day count and the tick count, and two values
\* of different days, or of different tick counts, have different payloads.
C14_TruncationLossless ==
    DateCallDone =>
        /\ \A i \in DOMAIN args.series :
              LET val == args.series[i]
                  field == ret.val[i]
                  days == DaysFromCivil(val.y, val.mo, val.d)
              IN  ~isna(val) =>
                    /\ days \in 0..3652058
                    /\ ByteOf(days, 4) = 0
                    /\ Len(field) = (IF args.tag = "DATE" THEN 4 ELSE 9)
                    /\ LEValue(DatePart(args.tag, field)) = days
                    /\ args.tag = "DATETIME2" =>
                          /\ SubSeq(ticks_100ns(val), 6, 8) = <<0, 0, 0>>
                          /\ ReadTicks(TimePart(field)) = TicksOf(val)
        /\ \A i, j \in DOMAIN args.series :
              LET a == args.series[i]
                  b == args.series[j]
              IN  (~isna(a) /\ ~isna(b)) =>
                    /\ <<a.y, a.mo, a.d>> # <<b.y, b.mo, b.d>> =>
                          DatePart(args.tag, ret.val[i]) # DatePart(args.tag, ret.val[j])
                    /\ (args.tag = "DATETIME2" /\ TicksOf(a) # TicksOf(b)) =>
                          TimePart(ret.val[i]) # TimePart(ret.val[j])

\* The last day of the calendar at the last tick of the day, beside the
\* first day at the first tick.
C14_Witness ==
    /\ DateCallDone
    /\ args.tag = "DATETIME2"
    /\ args.series = <<TsV(1, 1, 1, 0, 0), TsV(9999, 12, 31, 86399, 999999999)>>
    /\ ret.val = <<<<8, 0, 0, 0, 0, 0, 0, 0, 0>>,
                   <<8, 255, 191, 105, 42, 201, 218, 185, 55>>>>

(***************************************************************************)
(* Properties of the temporary files                                       *)
(***************************************************************************)
\* C13: with cleanup_temp_files, a call of bulk_insert_bcp_native that has
\* ended, by returning or by raising, leaves neither the .xml nor the .dat
\* file (the calls in which writing a file failed are left aside).
C13_CleanupOnEveryExit ==
    (BulkCall /\ pc = "done" /\ args.cleanup_temp_files /\ ret # Raise("OSError")) =>
        /\ ~xml_format_file.exists
        /\ ~dat_file.exists

====
